---- MODULE Spec2Model ----
\* AcctThread.py: walk an account's PreviousTxnID thread backwards over a
\* websocket connection to a ledger server, printing every response.
\*
\* JSON objects are TLA+ records (functions from field names); a field that is
\* absent in the JSON is absent from the record's DOMAIN, so that Python's
\* KeyError is "the field is not in the DOMAIN".
EXTENDS Integers, Sequences, FiniteSets, TLC

\* ---------------------------------------------------------------- bounds --
NumRefs == 2      \* transaction references the server knows
MaxNodes == 2     \* AffectedNodes entries in the server's whole snapshot
MaxTx == 3        \* tx queries before the model stops following a cyclic thread
MaxStray == 1     \* messages the channel delivers besides the one answer per request

\* ---------------------------------------------------------------- inputs --
\* Command-line arguments are sequences of one-character strings, so that
\* prefixes, lengths and the port pattern are computed on the characters.
RECURSIVE Join(_)
Join(chars) == IF chars = <<>> THEN "" ELSE Head(chars) \o Join(Tail(chars))
Rep(c, n) == [i \in 1..n |-> c]

\* sys.argv[1] of the walks modelled, the accountId being threaded.
TargetChars ==
    <<"r", "T", "a", "r", "g", "e", "t", "A", "c", "c", "o", "u", "n", "t", "O", "f", "T", "h", "e", "T", "h", "r", "e", "a", "d">>
Target == Join(TargetChars)
Other == "rOtherAccount"

Refs == {"T" \o ToString(i) : i \in 1..NumRefs}
PrevValues == Refs \cup {""}

Has(obj, key) == key \in DOMAIN obj

\* Entries of result.meta.AffectedNodes.
NodeKinds ==
    {[CreatedNode |-> [LedgerEntryType |-> "AccountRoot",
                       NewFields |-> [Account |-> a]]] : a \in {Target, Other}}
    \cup {[CreatedNode |-> [LedgerEntryType |-> "Offer",
                            NewFields |-> [Account |-> Target]]]}
    \cup {[ModifiedNode |-> [LedgerEntryType |-> "AccountRoot",
                             FinalFields |-> [Account |-> Target],
                             PreviousTxnID |-> p]] : p \in PrevValues}
    \cup {[ModifiedNode |-> [LedgerEntryType |-> "AccountRoot",
                             FinalFields |-> [Account |-> Other],
                             PreviousTxnID |-> "T1"]]}
    \cup {[ModifiedNode |-> [LedgerEntryType |-> "AccountRoot",
                             FinalFields |-> [Account |-> Target]]]}
    \cup {[DeletedNode |-> [LedgerEntryType |-> "Offer"]]}

\* Error codes of the server and the text it sends along with them.
TxErrorCodes == {"txnNotFound", "notImpl"}
AcctErrorCodes == {"actMalformed", "actNotFound"}
ErrorMessage(c) == "Server says " \o c \o "."

\* The AffectedNodes lists of at most n entries.
NodeLists(n) == UNION {[1..k -> NodeKinds] : k \in 0..n}

\* Bodies a server can answer a tx request for reference r with, given that
\* its list has at most n entries.
TxBodies(r, n) ==
    {[result |-> [hash |-> r, meta |-> [AffectedNodes |-> ns]]] : ns \in NodeLists(n)}
    \cup {[result |-> [hash |-> r, meta |-> [TransactionResult |-> "tesSUCCESS"]]],
          [result |-> [hash |-> r]],
          [status |-> "success"]}
    \cup {[error |-> c] : c \in TxErrorCodes}
    \cup {[error |-> c, error_message |-> ErrorMessage(c)] : c \in TxErrorCodes}

\* Bodies a server can answer the account_info request with.
AcctInfoBodies ==
    {[result |-> [account_data |-> [Account |-> Target, PreviousTxnID |-> p]]] :
         p \in PrevValues}
    \cup {[result |-> [account_data |-> [Account |-> Target]]],
          [result |-> [validated |-> TRUE]],
          [status |-> "success"]}
    \cup {[error |-> c] : c \in AcctErrorCodes}
    \cup {[error |-> c, error_message |-> ""] : c \in AcctErrorCodes}
    \cup {[error |-> c, error_message |-> ErrorMessage(c)] : c \in AcctErrorCodes}

\* ------------------------------------------------------------ the output --
Text(s) == [k |-> "text", v |-> s]
Json(obj) == [k |-> "json", v |-> obj]

\* ---------------------------------------------------------- extractArgs --
MinIdLen == 25
MaxIdLen == 35
SchemeLen == 5

NL == "\n"
Digits == {"0", "1", "2", "3", "4", "5", "6", "7", "8", "9"}
WsScheme == <<"w", "s", ":", "/", "/">>
DefaultConnectTo ==
    <<"w", "s", ":", "/", "/", "s", "2", ".", "r", "i", "p", "p", "l", "e", ".", "c", "o", "m", ":", "4", "4", "3">>

\* Python's s[:n].
Prefix(s, n) == SubSeq(s, 1, IF n < Len(s) THEN n ELSE Len(s))

\* re.search (r'\:\d+$', s): a colon and one or more digits, up to the end of
\* s or up to a line feed that is the last character of s ($ matches at both).
PortSearch(s) ==
    \E e \in {Len(s)} \cup (IF s # <<>> /\ s[Len(s)] = NL THEN {Len(s) - 1} ELSE {}) :
        \E i \in 1..(e - 1) :
            /\ s[i] = ":"
            /\ \A j \in (i + 1)..e : s[j] \in Digits

UsageText ==
    Text("usage: PyAcctThread <Account ID> [ws://<Server>:<port>]" \o NL
         \o "If <server>:<port> are omitted defaults to " \o Join(DefaultConnectTo))
NoAccountText == Text("Expected account ID as first argument." \o NL)
BadAccountText ==
    Text("Invalid format for account ID." \o NL
         \o "Should start with r with length between 25 and 35 characters." \o NL)
TooManyText == Text("Too many command line arguments." \o NL)
BadSchemeText(connectTo) ==
    Text("Invalid format for websocket connection.  Expected ws://.  Got: "
         \o Join(connectTo) \o NL)
NoPortText == Text("Invalid format for websocket connection.  Connection expected to end with port specifier (colon followed by digits)")
GotArgText(connectTo) == Text("Got: " \o Join(connectTo) \o NL)

\* sys.exit (1) after the lines given and the usage text.
UsageExit(lines) ==
    [exit |-> TRUE, outs |-> lines \o <<UsageText>>,
     connectTo |-> <<>>, accountId |-> <<>>]

\* extractArgs on the arguments after the program name: it returns connectTo
\* and accountId, or prints and exits with status 1.
ExtractArgsOf(args) ==
    LET argCount == Len(args)
    IN  IF argCount < 1
        THEN UsageExit(<<NoAccountText>>)
        ELSE LET accountId == args[1]
                 idLen == Len(accountId)
                 connectTo == IF argCount = 2 THEN args[2] ELSE DefaultConnectTo
             IN  IF Prefix(accountId, 1) # <<"r">> \/ idLen < MinIdLen \/ idLen > MaxIdLen
                 THEN UsageExit(<<BadAccountText>>)
                 ELSE IF argCount > 2
                 THEN UsageExit(<<TooManyText>>)
                 ELSE IF Prefix(connectTo, SchemeLen) # WsScheme
                 THEN UsageExit(<<BadSchemeText(connectTo)>>)
                 ELSE IF ~PortSearch(connectTo)
                 THEN UsageExit(<<NoPortText, GotArgText(connectTo)>>)
                 ELSE [exit |-> FALSE, outs |-> <<>>,
                       connectTo |-> connectTo, accountId |-> accountId]

\* Command lines: account identifiers around the limits of the length and
\* with another first character, connection targets with and without the
\* scheme and the port, and zero to three arguments.
AccountArgs ==
    {TargetChars,
     <<"r">> \o Rep("a", MinIdLen - 2),
     <<"r">> \o Rep("a", MaxIdLen),
     <<"x">> \o Rep("a", MinIdLen - 1),
     <<"a", "b", "c">>,
     <<>>}
ConnectArgs ==
    {DefaultConnectTo,
     WsScheme \o <<"h", ":", "1">>,
     WsScheme \o <<"h", ":", "1", NL>>,
     WsScheme \o <<"h", ":", "1", "x">>,
     WsScheme \o <<"h", ":">>,
     WsScheme \o <<"h">>,
     <<"w", "s", "s", ":", "/", "/", "h", ":", "1">>,
     <<"h", ":", "1">>,
     <<>>}
ArgvInputs ==
    {<<>>}
    \cup {<<a>> : a \in AccountArgs}
    \cup {<<a, c>> : a \in AccountArgs, c \in ConnectArgs}
    \cup {<<a, c, c>> : a \in AccountArgs, c \in {DefaultConnectTo, <<>>}}

RuleLine == Text("-------")

\* --------------------------------------------------------------- wsId ----
\* A wsId that returns the counter without advancing it.
WsIdStuck(v) == v

\* wsId: the incremented counter is the identifier returned.
WsIdNext(v) == v + 1

\* ---------------------------------------------------------- getResponse --
\* A getResponse that returns whatever message comes first.
IdMatchesAny(gotId, id) == TRUE

\* The test that ends getResponse's receive loop.
IdMatches(gotId, id) == gotId = id

\* A printAccountInfo or printTx that leaves the id in the message it prints.
PopIdKeep(msg) == msg

\* jsonMsg.pop ("id", None)
PopId(msg) == [f \in DOMAIN msg \ {"id"} |-> msg[f]]

MismatchLine(gotId, id) ==
    [k |-> "mismatch", got |-> gotId, expected |-> id]

\* --------------------------------------------------------- getPrevTxnId --
Exit(ret, outs, exit, exc) == [ret |-> ret, outs |-> outs, exit |-> exit, exc |-> exc]

\* jsonMsg["result"]["meta"]["AffectedNodes"] does not raise KeyError.
HasAffectedNodes(jsonMsg) ==
    /\ Has(jsonMsg, "result")
    /\ Has(jsonMsg.result, "meta")
    /\ Has(jsonMsg.result.meta, "AffectedNodes")

\* The entry type compared with the wrong literal.
IsCreatedAccountTypo(node, accountId) ==
    /\ Has(node, "CreatedNode")
    /\ Has(node.CreatedNode, "LedgerEntryType")
    /\ node.CreatedNode.LedgerEntryType = "Account"
    /\ Has(node.CreatedNode, "NewFields")
    /\ Has(node.CreatedNode.NewFields, "Account")
    /\ node.CreatedNode.NewFields.Account = accountId

\* The first try block of the loop body: the node records the creation of
\* accountId's AccountRoot. A missing field (KeyError) means it does not.
IsCreatedAccount(node, accountId) ==
    /\ Has(node, "CreatedNode")
    /\ Has(node.CreatedNode, "LedgerEntryType")
    /\ node.CreatedNode.LedgerEntryType = "AccountRoot"
    /\ Has(node.CreatedNode, "NewFields")
    /\ Has(node.CreatedNode.NewFields, "Account")
    /\ node.CreatedNode.NewFields.Account = accountId

\* The second try block without the comparison of the account.
IsModifiedAccountAny(node, accountId) ==
    /\ Has(node, "ModifiedNode")
    /\ Has(node.ModifiedNode, "FinalFields")
    /\ Has(node.ModifiedNode.FinalFields, "Account")
    /\ Has(node.ModifiedNode, "PreviousTxnID")

\* The second try block: the node modifies accountId's entry and names the
\* previous transaction. A missing field (KeyError) moves on to the next node.
IsModifiedAccount(node, accountId) ==
    /\ Has(node, "ModifiedNode")
    /\ Has(node.ModifiedNode, "FinalFields")
    /\ Has(node.ModifiedNode.FinalFields, "Account")
    /\ node.ModifiedNode.FinalFields.Account = accountId
    /\ Has(node.ModifiedNode, "PreviousTxnID")

CreatedText(accountId) == Text("Created Account " \o accountId \o ".  Done.")
NotFoundText ==
    Text("Transaction not found.  Does your server have enough history?  Unexpected stop.")
NoAffectedText == Text("No AffectedNodes found in transaction.  Unexpected stop.")
NoMoreText == Text("No more modifying transactions found.  Unexpected stop.")
GotText == Text("Got:")

\* A scan that keeps the last applicable entry: the list is read from its end.
RECURSIVE ScanNodesLast(_, _, _, _)
ScanNodesLast(jsonMsg, nodes, i, accountId) ==
    LET k == Len(nodes) + 1 - i
    IN  IF i > Len(nodes)
        THEN Exit("", <<NoMoreText, GotText, Json(jsonMsg)>>, "exhausted", "none")
        ELSE IF IsCreatedAccount(nodes[k], accountId)
        THEN Exit("", <<CreatedText(accountId)>>, "created", "none")
        ELSE IF IsModifiedAccount(nodes[k], accountId)
        THEN Exit(nodes[k].ModifiedNode.PreviousTxnID, <<>>, "next", "none")
        ELSE ScanNodesLast(jsonMsg, nodes, i + 1, accountId)

\* for node in affectedNodes, from the i-th entry on.
RECURSIVE ScanNodes(_, _, _, _)
ScanNodes(jsonMsg, nodes, i, accountId) ==
    IF i > Len(nodes)
    THEN Exit("", <<NoMoreText, GotText, Json(jsonMsg)>>, "exhausted", "none")
    ELSE IF IsCreatedAccount(nodes[i], accountId)
    THEN Exit("", <<CreatedText(accountId)>>, "created", "none")
    ELSE IF IsModifiedAccount(nodes[i], accountId)
    THEN Exit(nodes[i].ModifiedNode.PreviousTxnID, <<>>, "next", "none")
    ELSE ScanNodes(jsonMsg, nodes, i + 1, accountId)

\* The branch for an error other than txnNotFound: evaluating
\* jsonMsg[error_message] reads the name error_message, which is bound
\* nowhere in the file, so Python raises NameError before anything is printed.
OtherTxError(jsonMsg) == Exit("", <<>>, "raised", "NameError: error_message")

\* A getPrevTxnId without the txnNotFound case: every error takes the other
\* branch.
GetPrevTxnIdAnyError(jsonMsg, accountId) ==
    IF Has(jsonMsg, "error")
    THEN OtherTxError(jsonMsg)
    ELSE IF ~HasAffectedNodes(jsonMsg)
    THEN Exit("", <<NoAffectedText, GotText, Json(jsonMsg)>>, "noAffectedNodes", "none")
    ELSE ScanNodes(jsonMsg, jsonMsg.result.meta.AffectedNodes, 1, accountId)

\* A getPrevTxnId that reads AffectedNodes outside any try: a response
\* without the list raises KeyError.
GetPrevTxnIdNoTry(jsonMsg, accountId) ==
    IF Has(jsonMsg, "error")
    THEN IF jsonMsg.error = "txnNotFound"
         THEN Exit("", <<NotFoundText>>, "txnNotFound", "none")
         ELSE OtherTxError(jsonMsg)
    ELSE IF ~HasAffectedNodes(jsonMsg)
    THEN Exit("", <<>>, "raised", "KeyError: AffectedNodes")
    ELSE ScanNodes(jsonMsg, jsonMsg.result.meta.AffectedNodes, 1, accountId)

\* getPrevTxnId: the next transaction of the thread, "" when the walk stops.
GetPrevTxnId(jsonMsg, accountId) ==
    IF Has(jsonMsg, "error")
    THEN IF jsonMsg.error = "txnNotFound"
         THEN Exit("", <<NotFoundText>>, "txnNotFound", "none")
         ELSE OtherTxError(jsonMsg)
    ELSE IF ~HasAffectedNodes(jsonMsg)
    THEN Exit("", <<NoAffectedText, GotText, Json(jsonMsg)>>, "noAffectedNodes", "none")
    ELSE ScanNodes(jsonMsg, jsonMsg.result.meta.AffectedNodes, 1, accountId)

\* ------------------------------------------------- threadAccount, start --
\* Python truthiness of a string.
Truthy(s) == s # ""

NoAccountInfoText(accountId) == Text("No account_info for accountID " \o accountId)
MistypeText == Text("Did you mistype the accountID?")
NoPrevText(accountId) ==
    Text("No PreviousTxnID found for " \o accountId \o ".  No transactions found.")
StopText(err) == Text(err \o "  Unexpected stop.")

\* jsonMsg["result"]["account_data"]["PreviousTxnID"] does not raise KeyError.
HasStartTxnId(jsonMsg) ==
    /\ Has(jsonMsg, "result")
    /\ Has(jsonMsg.result, "account_data")
    /\ Has(jsonMsg.result.account_data, "PreviousTxnID")

\* The error branch of threadAccount: jsonMsg["error_message"] is subscripted
\* without a membership test, so a response without the field raises KeyError
\* after the first lines are printed.
AccountInfoError(jsonMsg, accountId) ==
    LET head == <<NoAccountInfoText(accountId)>>
                \o (IF jsonMsg.error = "actMalformed" THEN <<MistypeText>> ELSE <<>>)
    IN  IF ~Has(jsonMsg, "error_message")
        THEN Exit("", head, "raised", "KeyError: error_message")
        ELSE LET err == IF Truthy(jsonMsg.error_message)
                        THEN jsonMsg.error_message
                        ELSE jsonMsg.error
             IN  Exit("", head \o <<StopText(err)>>, "error", "none")

\* A threadAccount that reads the starting PreviousTxnID outside any try.
StartWalkNoCatch(jsonMsg, accountId) ==
    IF Has(jsonMsg, "error")
    THEN AccountInfoError(jsonMsg, accountId)
    ELSE IF HasStartTxnId(jsonMsg)
    THEN Exit(jsonMsg.result.account_data.PreviousTxnID, <<>>, "next", "none")
    ELSE Exit("", <<>>, "raised", "KeyError: PreviousTxnID")

\* threadAccount from the return of printAccountInfo to the loop test.
StartWalk(jsonMsg, accountId) ==
    IF Has(jsonMsg, "error")
    THEN AccountInfoError(jsonMsg, accountId)
    ELSE IF HasStartTxnId(jsonMsg)
    THEN Exit(jsonMsg.result.account_data.PreviousTxnID, <<>>, "next", "none")
    ELSE Exit("", <<NoPrevText(accountId)>>, "noHistory", "none")

\* The terminal state of the walk that an exit path stands for. An exit with
\* a reference continues the walk; an exit "next" with the empty reference
\* leaves the loop with nothing printed.
StateOf(e) ==
    CASE e.exit = "created" -> "Created"
      [] e.exit = "noHistory" -> "NoHistory"
      [] e.exit = "exhausted" -> "Exhausted"
      [] e.exit \in {"error", "txnNotFound", "noAffectedNodes"} -> "Error"
      [] e.exit = "raised" -> "Raised"
      [] e.exit = "next" /\ e.ret = "" -> "Ended"
      [] OTHER -> "Walking"

\* ------------------------------------------------------------- the state --
VARIABLES
    argv,        \* sys.argv after the program name
    pc,          \* where the program is: "args", "main", "connected",
                 \* "awaitInfo", "loop", "awaitTx", "done"
    conn,        \* the websocket: "none", "open", "closed"
    wsIdValue,   \* the global request counter
    waitId,      \* the id getResponse is waiting for
    prevTxnId,   \* threadAccount's prevTxnId
    inbox,       \* messages the channel has delivered and ws.recv has not returned
    out,         \* standard output, oldest first
    sent,        \* requests passed to ws.send, oldest first
    responded,   \* ids of the requests the server has answered
    answered,    \* per return of getResponse: the id waited for, the id received
    steps,       \* per response the walker inspected: the query and the exit taken
    txLedger,    \* the server's snapshot: reference -> body of its tx response
    acctLedger,  \* the server's snapshot: account -> body of its account_info response
    strays,      \* messages delivered that are not the one answer to a request
    nodes,       \* AffectedNodes entries in the snapshot so far
    terminal,    \* the state the walk ended in, "Walking" until then
    exc          \* the exception that ended the run, "none" otherwise

vars == <<argv, pc, conn, wsIdValue, waitId, prevTxnId, inbox, out, sent, responded,
          answered, steps, txLedger, acctLedger, strays, nodes, terminal, exc>>

walkVars == <<wsIdValue, waitId, prevTxnId, sent, answered, steps>>
serverVars == <<responded, txLedger, acctLedger, strays, nodes>>

Init ==
    /\ argv = <<TargetChars>>
    /\ pc = "args"
    /\ conn = "none"
    /\ wsIdValue = 0
    /\ waitId = 0
    /\ prevTxnId = ""
    /\ inbox = <<>>
    /\ out = <<>>
    /\ sent = <<>>
    /\ responded = {}
    /\ answered = <<>>
    /\ steps = <<>>
    /\ txLedger = [r \in {} |-> 0]
    /\ acctLedger = [a \in {} |-> 0]
    /\ strays = 0
    /\ nodes = 0
    /\ terminal = "Walking"
    /\ exc = "none"

Request(id, command, arg) == [id |-> id, command |-> command, arg |-> arg]

\* The references of the tx requests sent, oldest first.
Queried == SelectSeq(sent, LAMBDA q : q.command = "tx")
InfoQueries == SelectSeq(sent, LAMBDA q : q.command = "account_info")

\* ------------------------------------------------------------- __main__ --
\* extractArgs (): sys.exit (1) raises SystemExit and the program ends with
\* status 1 before openConnection is called; otherwise openConnection is
\* called with what extractArgs returned.
ExtractArgs ==
    /\ pc = "args"
    /\ LET r == ExtractArgsOf(argv)
       IN  IF r.exit
           THEN /\ out' = out \o r.outs
                /\ pc' = "done"
                /\ terminal' = "UsageError"
                /\ exc' = "SystemExit: 1"
           ELSE /\ pc' = "main"
                /\ UNCHANGED <<out, terminal, exc>>
    /\ UNCHANGED <<argv, conn, walkVars, serverVars, inbox>>

\* ------------------------------------------------------- openConnection --
\* ws.close () after the call instead of in a finally clause.
FinallyOnReturn(raised) == IF raised THEN "open" ELSE "closed"

\* The finally clause around threadAccount: ws.close () runs whether
\* threadAccount returned or raised.
Finally(raised) == "closed"

\* threadAccount returns (exit e of its last step) or raises: the finally
\* clause runs and the program ends.
EndWalk(e) ==
    /\ pc' = "done"
    /\ terminal' = StateOf(e)
    /\ exc' = e.exc
    /\ conn' = Finally(e.exc # "none")

ConnectErrorText(outcome) ==
    IF outcome = "WebSocketAddressException"
    THEN Text("Unable to open connection.")
    ELSE Text("Connection refused.")

\* create_connection succeeds, or fails with one of the two exceptions caught.
OpenConnection ==
    /\ pc = "main"
    /\ \E outcome \in {"ok", "WebSocketAddressException", "ConnectionRefusedError"} :
          IF outcome = "ok"
          THEN /\ conn' = "open"
               /\ pc' = "connected"
               /\ UNCHANGED <<out, terminal>>
          ELSE /\ out' = Append(out, ConnectErrorText(outcome))
               /\ pc' = "done"
               /\ terminal' = "NoConnection"
               /\ UNCHANGED conn
    /\ UNCHANGED <<argv, walkVars, serverVars, inbox, exc>>

\* ------------------------------------------- printAccountInfo / printTx --
\* A printTx that sends and returns without waiting for the answer.
AwaitPcNoWait(command) == IF command = "account_info" THEN "awaitInfo" ELSE "loop"

\* Where the caller of ws.send goes next: into getResponse.
AwaitPc(command) == IF command = "account_info" THEN "awaitInfo" ELSE "awaitTx"

\* printAccountInfo up to the first ws.recv.
SendAccountInfo ==
    /\ pc = "connected"
    /\ wsIdValue' = WsIdNext(wsIdValue)
    /\ sent' = Append(sent, Request(wsIdValue', "account_info", Target))
    /\ waitId' = wsIdValue'
    /\ pc' = AwaitPc("account_info")
    /\ UNCHANGED <<argv, conn, prevTxnId, inbox, out, answered, steps, serverVars,
                   terminal, exc>>

\* One turn of the loop of threadAccount up to the first ws.recv of printTx.
SendTx ==
    /\ pc = "loop"
    /\ Len(Queried) < MaxTx
    /\ out' = Append(out, RuleLine)
    /\ wsIdValue' = WsIdNext(wsIdValue)
    /\ sent' = Append(sent, Request(wsIdValue', "tx", prevTxnId))
    /\ waitId' = wsIdValue'
    /\ pc' = AwaitPc("tx")
    /\ UNCHANGED <<argv, conn, prevTxnId, inbox, answered, steps, serverVars,
                   terminal, exc>>

\* ws.send raises (the connection is gone): the exception leaves
\* threadAccount through the finally clause.
SendFails ==
    /\ pc \in {"connected", "loop"}
    /\ out' = IF pc = "loop" THEN Append(out, RuleLine) ELSE out
    /\ wsIdValue' = WsIdNext(wsIdValue)
    /\ EndWalk(Exit("", <<>>, "raised", "ChannelError"))
    /\ UNCHANGED <<argv, waitId, prevTxnId, inbox, sent, answered, steps, serverVars>>

\* ws.recv raises inside getResponse.
RecvFails ==
    /\ pc \in {"awaitInfo", "awaitTx"}
    /\ EndWalk(Exit("", <<>>, "raised", "ChannelError"))
    /\ UNCHANGED <<argv, walkVars, serverVars, inbox, out>>

\* A loop that drops what getPrevTxnId returns.
NextTxnIdStuck(cur, e) == IF e.exc = "none" /\ cur = "" THEN e.ret ELSE cur

\* The assignments to prevTxnId (from account_data, then from getPrevTxnId in
\* the loop): it takes the reference of the exit; when the step raised,
\* nothing is assigned.
NextTxnId(cur, e) == IF e.exc = "none" THEN e.ret ELSE cur

\* threadAccount is left after exit e with prevTxnId = nxt: by an exception,
\* by one of the two return statements, or by the loop test.
Leaves(e, nxt) ==
    \/ e.exc # "none"
    \/ e.exit \in {"error", "noHistory"}
    \/ nxt = ""

Step(q, jsonMsg, e) ==
    [command |-> q.command, arg |-> q.arg, msg |-> jsonMsg,
     exit |-> e.exit, ret |-> e.ret, state |-> StateOf(e)]

\* The request getResponse is waiting on: the last one sent.
Waiting == sent[Len(sent)]

\* A printTx that prints the response after its caller has looked at it: a
\* caller that raises leaves the response unprinted.
PrintedAfter(jsonMsg, e) ==
    IF e.exc # "none" THEN e.outs ELSE e.outs \o <<Json(jsonMsg)>>

\* What a response adds to the output: printAccountInfo or printTx prints it
\* (json.dumps of the message without its id) before returning it, then the
\* caller prints the lines of the exit it takes.
Printed(jsonMsg, e) == <<Json(jsonMsg)>> \o e.outs

\* What the walker does with the message getResponse returned: print it, take
\* the exit e, and go round the loop or leave threadAccount.
Inspect(msg, jsonMsg, e) ==
    /\ out' = out \o Printed(jsonMsg, e)
    /\ answered' = Append(answered, [want |-> waitId, got |-> msg.id])
    /\ steps' = Append(steps, Step(Waiting, jsonMsg, e))
    /\ prevTxnId' = NextTxnId(prevTxnId, e)
    /\ IF Leaves(e, prevTxnId')
       THEN EndWalk(e)
       ELSE /\ pc' = "loop"
            /\ UNCHANGED <<conn, terminal, exc>>
    /\ UNCHANGED <<wsIdValue, waitId, sent>>

\* What the caller of printAccountInfo or printTx does with the response.
Walk(command, jsonMsg) ==
    IF command = "account_info"
    THEN StartWalk(jsonMsg, Target)
    ELSE GetPrevTxnId(jsonMsg, Target)

\* One ws.recv of getResponse, and when it returns, the rest of the caller up
\* to its next ws.send: a message without "id" raises KeyError, another id is
\* reported and the loop goes on, the awaited id is returned.
Receive(command) ==
    /\ inbox # <<>>
    /\ inbox' = Tail(inbox)
    /\ LET msg == Head(inbox)
       IN  IF ~Has(msg, "id")
           THEN /\ EndWalk(Exit("", <<>>, "raised", "KeyError: id"))
                /\ UNCHANGED <<walkVars, out>>
           ELSE IF ~IdMatches(msg.id, waitId)
           THEN /\ out' = Append(out, MismatchLine(msg.id, waitId))
                /\ UNCHANGED <<walkVars, pc, conn, terminal, exc>>
           ELSE Inspect(msg, PopId(msg), Walk(command, PopId(msg)))
    /\ UNCHANGED <<argv, serverVars>>

\* getResponse inside printAccountInfo, then threadAccount up to the loop.
RecvAccountInfo ==
    /\ pc = "awaitInfo"
    /\ Receive("account_info")

\* getResponse inside printTx, then getPrevTxnId and the loop test.
RecvTx ==
    /\ pc = "awaitTx"
    /\ Receive("tx")

\* ----------------------------------------------------------- the server --
WithId(body, id) == [f \in DOMAIN body \cup {"id"} |-> IF f = "id" THEN id ELSE body[f]]

\* The bodies the snapshot allows for query q: the one already given for the
\* same reference or account, any body the first time it is asked for.
Snapshot(q) ==
    IF q.command = "tx"
    THEN IF q.arg \in DOMAIN txLedger
         THEN {txLedger[q.arg]}
         ELSE TxBodies(q.arg, MaxNodes - nodes)
    ELSE IF q.arg \in DOMAIN acctLedger THEN {acctLedger[q.arg]} ELSE AcctInfoBodies

NodeCount(body) ==
    IF HasAffectedNodes(body) THEN Len(body.result.meta.AffectedNodes) ELSE 0

\* ws.recv returns the messages in arrival order and getResponse acts on
\* nothing else, so a run is decided by the sequence of messages read. The
\* channel hands over the next message of that sequence when the one before
\* it has been read; a stray message comes ahead of the answer to the request
\* getResponse waits for (one that arrives behind an answer is read by the
\* next getResponse, ahead of that one's answer).
ChannelIdle == conn = "open" /\ inbox = <<>>
InGetResponse == pc \in {"awaitInfo", "awaitTx"} /\ waitId \notin responded

\* The server answers a request it has not answered yet, echoing its id.
ServerRespond ==
    /\ ChannelIdle
    /\ \E i \in 1..Len(sent) : \E body \in Snapshot(sent[i]) :
          /\ sent[i].id \notin responded
          /\ inbox' = Append(inbox, WithId(body, sent[i].id))
          /\ responded' = responded \cup {sent[i].id}
          /\ txLedger' = IF sent[i].command = "tx"
                         THEN (sent[i].arg :> body) @@ txLedger ELSE txLedger
          /\ acctLedger' = IF sent[i].command = "tx"
                           THEN acctLedger ELSE (sent[i].arg :> body) @@ acctLedger
          /\ nodes' = IF sent[i].command = "tx" /\ sent[i].arg \notin DOMAIN txLedger
                      THEN nodes + NodeCount(body) ELSE nodes
    /\ UNCHANGED <<argv, pc, conn, walkVars, out, strays, terminal, exc>>

\* The channel delivers an answer a second time.
Redeliver ==
    /\ ChannelIdle
    /\ InGetResponse
    /\ strays < MaxStray
    /\ \E i \in 1..Len(sent) : \E body \in Snapshot(sent[i]) :
          /\ sent[i].id \in responded
          /\ inbox' = Append(inbox, WithId(body, sent[i].id))
    /\ strays' = strays + 1
    /\ UNCHANGED <<argv, pc, conn, walkVars, out, responded, txLedger, acctLedger,
                   nodes, terminal, exc>>

\* The channel delivers a message that answers no request and has no "id".
Unsolicited ==
    /\ ChannelIdle
    /\ InGetResponse
    /\ strays < MaxStray
    /\ inbox' = Append(inbox, [type |-> "serverStatus"])
    /\ strays' = strays + 1
    /\ UNCHANGED <<argv, pc, conn, walkVars, out, responded, txLedger, acctLedger,
                   nodes, terminal, exc>>

Next ==
    \/ ExtractArgs
    \/ OpenConnection
    \/ SendAccountInfo
    \/ SendTx
    \/ SendFails
    \/ RecvFails
    \/ RecvAccountInfo
    \/ RecvTx
    \/ ServerRespond
    \/ Redeliver
    \/ Unsolicited

Spec == Init /\ [][Next]_vars

\* The walk run in a process whose request counter a walk before it has
\* already used: the counter starts at 0, as at line 84, or where a walk of
\* one account_info query and MaxTx tx queries left it.
CounterStarts == {0, MaxTx + 1}

InitAnyCounter ==
    /\ wsIdValue \in CounterStarts
    /\ argv = <<TargetChars>>
    /\ pc = "args"
    /\ conn = "none"
    /\ waitId = 0
    /\ prevTxnId = ""
    /\ inbox = <<>>
    /\ out = <<>>
    /\ sent = <<>>
    /\ responded = {}
    /\ answered = <<>>
    /\ steps = <<>>
    /\ txLedger = [r \in {} |-> 0]
    /\ acctLedger = [a \in {} |-> 0]
    /\ strays = 0
    /\ nodes = 0
    /\ terminal = "Walking"
    /\ exc = "none"

SpecAnyCounter == InitAnyCounter /\ [][Next]_vars

\* The program started on any of the command lines.
InitArgs ==
    /\ argv \in ArgvInputs
    /\ pc = "args"
    /\ conn = "none"
    /\ wsIdValue = 0
    /\ waitId = 0
    /\ prevTxnId = ""
    /\ inbox = <<>>
    /\ out = <<>>
    /\ sent = <<>>
    /\ responded = {}
    /\ answered = <<>>
    /\ steps = <<>>
    /\ txLedger = [r \in {} |-> 0]
    /\ acctLedger = [a \in {} |-> 0]
    /\ strays = 0
    /\ nodes = 0
    /\ terminal = "Walking"
    /\ exc = "none"

SpecArgs == InitArgs /\ [][Next]_vars

\* =============================================================== claims ==
Done == pc = "done"
TerminalStates == {"Created", "NoHistory", "Error", "Exhausted"}

\* The exceptions that come from the channel, not from the server's answers.
ChannelExcs == {"ChannelError", "KeyError: id"}

\* The reference the snapshot names as the one before r in the account's
\* thread, "" when r's response names none.
Pred(r) == GetPrevTxnId(txLedger[r], Target).ret

\* The references reached from r in 1..n links of the snapshot.
RECURSIVE Older(_, _)
Older(r, n) ==
    IF n = 0 \/ r \notin DOMAIN txLedger \/ Pred(r) = ""
    THEN {}
    ELSE {Pred(r)} \cup Older(Pred(r), n - 1)

\* No transaction of the snapshot is its own ancestor.
ChainAcyclic ==
    \A r \in DOMAIN txLedger : r \notin Older(r, Cardinality(DOMAIN txLedger))

QueriedRefs == [i \in 1..Len(Queried) |-> Queried[i].arg]
NoRepeat(seq) == Cardinality({seq[i] : i \in 1..Len(seq)}) = Len(seq)

\* Every PreviousTxnID the walker was handed is a reference, not the empty string.
LinksAreRefs == \A i \in DOMAIN steps : steps[i].exit = "next" => steps[i].ret # ""

\* C1: when the run is over, the server's thread for the account is acyclic
\* (and made of references) and the channel has answered every request, the
\* walk is in exactly one of the terminal states Created, NoHistory, Error,
\* Exhausted, and has sent one account_info query and one tx query per link
\* of the thread visited.
C1_OneTerminalState ==
    (Done /\ conn # "none" /\ ChainAcyclic /\ LinksAreRefs /\ exc \notin ChannelExcs)
        => /\ terminal \in TerminalStates
           /\ Len(InfoQueries) = 1
           /\ Len(Queried) = Cardinality(DOMAIN txLedger)

\* C2: every message getResponse has returned carries the identifier of the
\* query it was returned for: the i-th return answers the i-th request sent
\* and the walker inspected it as the answer to that request.
C2_Correlation ==
    /\ Len(answered) <= Len(sent)
    /\ Len(steps) = Len(answered)
    /\ \A i \in DOMAIN answered :
          /\ answered[i].want = sent[i].id
          /\ answered[i].got = sent[i].id
          /\ steps[i].command = sent[i].command
          /\ steps[i].arg = sent[i].arg

\* A mismatched message was received and reported, and the walk went on to
\* have two queries answered.
C2_Witness ==
    /\ Len(answered) >= 2
    /\ \E i \in DOMAIN out : out[i].k = "mismatch"

\* The identifiers sent for which no message with that identifier has been
\* returned by getResponse.
Outstanding ==
    {sent[i].id : i \in DOMAIN sent} \ {answered[i].got : i \in DOMAIN answered}

\* C3: at most one query is sent and not yet resolved, and none is
\* outstanding whenever the walker is about to send.
C3_OneInFlight ==
    /\ Cardinality(Outstanding) <= 1
    /\ pc \in {"connected", "loop"} => Outstanding = {}

\* A second query is in flight after the first was resolved.
C3_Witness == Len(sent) >= 2 /\ Cardinality(Outstanding) = 1

\* C4: a run that opened the connection never ends with it still open.
C4_ClosedAtExit == (Done /\ terminal # "NoConnection") => conn = "closed"

\* The walk ended by an exception raised inside threadAccount, after a tx
\* query, and the connection is closed.
C4_Witness ==
    /\ Done
    /\ exc = "NameError: error_message"
    /\ conn = "closed"

\* Each queried reference is the predecessor, in the snapshot, of the one
\* queried before it.
FollowsThread ==
    LET q == QueriedRefs
    IN  \A i \in 2..Len(q) :
            /\ q[i - 1] \in DOMAIN txLedger
            /\ q[i] = Pred(q[i - 1])

\* C5 as stated: the references queried follow the thread from newest to
\* oldest and no reference is queried twice.
C5_NeverTwice == FollowsThread /\ NoRepeat(QueriedRefs)

\* C5 as amended: the references queried follow the thread, and when the
\* server's thread is acyclic no reference is queried twice.
C5_NewestToOldest == FollowsThread /\ (NoRepeat(QueriedRefs) \/ ~ChainAcyclic)

\* Two different references were queried along an acyclic thread.
C5_Witness ==
    /\ Len(QueriedRefs) >= 2
    /\ ChainAcyclic
    /\ QueriedRefs[2] \in DOMAIN txLedger

\* The entries the claims speak of, written out as the JSON they are.
CreatedTarget ==
    [CreatedNode |-> [LedgerEntryType |-> "AccountRoot",
                      NewFields |-> [Account |-> Target]]]
ModifiedTarget(p) ==
    [ModifiedNode |-> [LedgerEntryType |-> "AccountRoot",
                       FinalFields |-> [Account |-> Target],
                       PreviousTxnID |-> p]]

TxSteps == {i \in DOMAIN steps : steps[i].command = "tx"}
NodesOf(i) == steps[i].msg.result.meta.AffectedNodes
Successful(i) == i \in TxSteps /\ HasAffectedNodes(steps[i].msg)

\* The walk ended in Created at step i: nothing was sent after its query.
EndedCreated(i) ==
    /\ steps[i].state = "Created"
    /\ steps[i].ret = ""
    /\ Len(sent) = i
    /\ Done /\ terminal = "Created"
    /\ out[Len(out)] = CreatedText(Target)

\* C6 as stated: a successful tx response whose AffectedNodes holds the
\* CreatedNode of the target's AccountRoot at any position ends the walk in
\* Created with no further tx query.
C6_CreatedAnywhere ==
    \A i \in DOMAIN steps :
        (Successful(i) /\ \E k \in DOMAIN NodesOf(i) : NodesOf(i)[k] = CreatedTarget)
            => EndedCreated(i)

\* C6 as amended: it does so when no entry before the CreatedNode is a
\* ModifiedNode of the target account with a PreviousTxnID.
C6_CreatedFirst ==
    \A i \in DOMAIN steps :
        (Successful(i) /\ \E k \in DOMAIN NodesOf(i) :
            /\ NodesOf(i)[k] = CreatedTarget
            /\ \A j \in 1..(k - 1) : \A p \in PrevValues :
                  NodesOf(i)[j] # ModifiedTarget(p))
            => EndedCreated(i)

\* The CreatedNode of the target was found behind another entry.
C6_Witness ==
    \E i \in DOMAIN steps :
        /\ Successful(i)
        /\ Len(NodesOf(i)) >= 2
        /\ NodesOf(i)[2] = CreatedTarget
        /\ EndedCreated(i)

\* The line the walk prints for a server error: the message, else the code.
ErrorLine(msg) ==
    StopText(IF Has(msg, "error_message") /\ msg.error_message # ""
             THEN msg.error_message ELSE msg.error)

\* C7: a tx response with an error other than txnNotFound, with or without
\* error_message, is handled by the walk: it reports the message or the
\* code, ends in state Error with no further tx query, and raises nothing.
C7_OtherTxErrorHandled ==
    \A i \in TxSteps :
        (Has(steps[i].msg, "error") /\ steps[i].msg.error # "txnNotFound")
            => /\ steps[i].state = "Error"
               /\ Done /\ terminal = "Error" /\ exc = "none"
               /\ Len(sent) = i
               /\ out[Len(out)] = ErrorLine(steps[i].msg)

\* C8: an account_info response with an error ends the walk in state Error
\* with no tx query, reporting error_message when there is one and the bare
\* code when there is none, and raises nothing.
C8_AccountInfoErrorHandled ==
    \A i \in DOMAIN steps :
        (steps[i].command = "account_info" /\ Has(steps[i].msg, "error"))
            => /\ steps[i].state = "Error"
               /\ Done /\ terminal = "Error" /\ exc = "none"
               /\ Len(Queried) = 0
               /\ out[Len(out)] = ErrorLine(steps[i].msg)

\* The messages that say why the walk stopped.
FinalTexts ==
    {CreatedText(Target), NoPrevText(Target), NotFoundText, NoAffectedText, NoMoreText}
    \cup {StopText(c) : c \in TxErrorCodes \cup AcctErrorCodes}
    \cup {StopText(ErrorMessage(c)) : c \in TxErrorCodes \cup AcctErrorCodes}

\* C9: whenever threadAccount has stopped, whatever the server answered, the
\* output holds a final message that says why.
C9_FinalMessage ==
    (Done /\ conn # "none" /\ exc \notin ChannelExcs)
        => \E i \in DOMAIN out : out[i] \in FinalTexts

\* An account_info response with no error and no result.account_data.PreviousTxnID.
LacksStart(msg) ==
    /\ ~Has(msg, "error")
    /\ \/ ~Has(msg, "result")
       \/ ~Has(msg.result, "account_data")
       \/ ~Has(msg.result.account_data, "PreviousTxnID")

\* C10: an account_info response with no error and no PreviousTxnID ends the
\* walk at once in state NoHistory with the "No transactions found" message
\* and no tx query.
C10_NoHistory ==
    \A i \in DOMAIN steps :
        (steps[i].command = "account_info" /\ LacksStart(steps[i].msg))
            => /\ steps[i].state = "NoHistory"
               /\ Done /\ terminal = "NoHistory" /\ exc = "none"
               /\ Len(Queried) = 0
               /\ out[Len(out)] = NoPrevText(Target)

\* The account exists and its account_data has no PreviousTxnID.
C10_Witness ==
    /\ Done
    /\ Len(steps) = 1
    /\ steps[1].msg = [result |-> [account_data |-> [Account |-> Target]]]
    /\ terminal = "NoHistory"

\* The walk stopped at step i with the lines given as the end of the output:
\* nothing was sent after the query of step i and nothing was raised.
StoppedWith(i, state, lines) ==
    /\ steps[i].state = state
    /\ steps[i].ret = ""
    /\ Len(sent) = i
    /\ Done /\ terminal = state /\ exc = "none"
    /\ Len(out) >= Len(lines)
    /\ SubSeq(out, Len(out) - Len(lines) + 1, Len(out)) = lines

\* C11: a tx response with the error code txnNotFound, at whatever position
\* of the walk, makes the walk print the insufficient-history message and
\* end, with no further tx query.
C11_TxnNotFound ==
    \A i \in TxSteps :
        (Has(steps[i].msg, "error") /\ steps[i].msg.error = "txnNotFound")
            => StoppedWith(i, "Error", <<NotFoundText>>)

\* The second tx query of a walk was answered txnNotFound.
C11_Witness ==
    /\ Done
    /\ Len(steps) = 3
    /\ steps[3].command = "tx"
    /\ Has(steps[3].msg, "error")
    /\ steps[3].msg.error = "txnNotFound"
    /\ out[Len(out)] = NotFoundText

\* The entry references the target account: it is the CreatedNode of its
\* AccountRoot or a ModifiedNode whose FinalFields.Account is the target.
ReferencesTarget(node) ==
    \/ node = CreatedTarget
    \/ /\ "ModifiedNode" \in DOMAIN node
       /\ "FinalFields" \in DOMAIN node.ModifiedNode
       /\ "Account" \in DOMAIN node.ModifiedNode.FinalFields
       /\ node.ModifiedNode.FinalFields.Account = Target

\* C12: a successful tx response none of whose AffectedNodes entries
\* references the target account makes the walk print "No more modifying
\* transactions found", dump the response and end in Exhausted, with no
\* further tx query.
C12_Exhausted ==
    \A i \in DOMAIN steps :
        (Successful(i) /\ \A k \in DOMAIN NodesOf(i) : ~ReferencesTarget(NodesOf(i)[k]))
            => StoppedWith(i, "Exhausted",
                           <<NoMoreText, GotText, Json(steps[i].msg)>>)

\* The response that exhausted the walk lists an entry, and the entry is a
\* ModifiedNode of another account.
C12_Witness ==
    \E i \in DOMAIN steps :
        /\ Successful(i)
        /\ Len(NodesOf(i)) >= 1
        /\ "ModifiedNode" \in DOMAIN NodesOf(i)[1]
        /\ \A k \in DOMAIN NodesOf(i) : ~ReferencesTarget(NodesOf(i)[k])
        /\ Done /\ terminal = "Exhausted"

\* C13: the identifiers wsId issues are 1, 2, 3, ... in issue order: the
\* first request carries 1, every request carries an identifier greater than
\* all before it, and no two requests of a run carry the same identifier.
C13_FreshIds ==
    /\ \A i \in DOMAIN sent : sent[i].id = i
    /\ \A i, j \in DOMAIN sent : i < j => sent[i].id < sent[j].id
    /\ \A i \in DOMAIN sent : sent[i].id <= wsIdValue
    /\ wsIdValue <= Len(sent) + 1

\* Three requests were sent: the account_info query and two tx queries.
C13_Witness ==
    /\ Len(sent) = 3
    /\ sent[1].command = "account_info"
    /\ sent[3].command = "tx"
    /\ wsIdValue = 3

\* The positions of the output where printAccountInfo or printTx printed a
\* response: the JSON records other than the dump that follows "Got:".
ResponseRecords ==
    {i \in DOMAIN out : out[i].k = "json" /\ (i = 1 \/ out[i - 1] # GotText)}

\* C14: every response printAccountInfo or printTx obtained is printed
\* before the walker inspects it: in every state, whether the walk goes on,
\* has ended or has failed, the output holds one record per response
\* received so far, in the order received, and what the walker printed on
\* inspecting the last one comes after its record.
C14_PrintedBeforeInspected ==
    LET idx == ResponseRecords
    IN  /\ Cardinality(idx) = Len(steps)
        /\ \A i \in idx : out[i].v = steps[Cardinality({j \in idx : j <= i})].msg
        /\ \A i \in idx :
              (/\ Cardinality({j \in idx : j <= i}) = Len(steps)
               /\ steps[Len(steps)].state \in TerminalStates)
                  => i < Len(out)

\* The walk failed on inspecting its second response, and the response is
\* the last thing printed.
C14_Witness ==
    /\ Done
    /\ exc = "NameError: error_message"
    /\ Len(steps) >= 2
    /\ out[Len(out)] = Json(steps[Len(steps)].msg)

\* getResponse is waiting and this step is a ws.recv that returned the first
\* message of the channel.
RecvReturns ==
    /\ pc \in {"awaitInfo", "awaitTx"}
    /\ inbox # <<>>
    /\ inbox' = Tail(inbox)

\* The message read is reported as a mismatch and the wait goes on: one line
\* more on the output, getResponse still waiting for the same identifier,
\* nothing returned to the walker, nothing raised.
WaitContinues ==
    /\ Len(out') = Len(out) + 1
    /\ SubSeq(out', 1, Len(out)) = out
    /\ out'[Len(out')].k = "mismatch"
    /\ out'[Len(out')].expected = waitId
    /\ pc' = pc /\ conn' = conn
    /\ exc' = "none" /\ terminal' = "Walking"
    /\ UNCHANGED walkVars

\* C17 as stated: while getResponse waits for identifier X, every message
\* received that is not the answer carrying X is consumed once, reported as
\* a mismatch, and the wait continues; none aborts the walk.
C17_AnyStrayNonFatal ==
    [][(RecvReturns /\ ~("id" \in DOMAIN Head(inbox) /\ Head(inbox).id = waitId))
          => WaitContinues]_vars

\* C17 as amended: so it is for every message received that carries an
\* identifier other than X.
C17_MismatchNonFatal ==
    [][(RecvReturns /\ "id" \in DOMAIN Head(inbox) /\ Head(inbox).id # waitId)
          => /\ WaitContinues
             /\ out'[Len(out')].got = Head(inbox).id]_vars

\* A mismatch was reported during the wait for the first tx answer, and the
\* walk went on to one of its terminal states.
C17_Witness ==
    /\ Done
    /\ terminal \in TerminalStates
    /\ Len(steps) >= 2
    /\ \E i \in DOMAIN out :
          /\ out[i].k = "mismatch"
          /\ out[i].expected = 2
          /\ out[i].got = 1

\* The entry is one the scan takes the next reference from: a ModifiedNode
\* whose FinalFields.Account is the target and that has a PreviousTxnID.
Applicable(node) ==
    /\ "ModifiedNode" \in DOMAIN node
    /\ "FinalFields" \in DOMAIN node.ModifiedNode
    /\ "Account" \in DOMAIN node.ModifiedNode.FinalFields
    /\ node.ModifiedNode.FinalFields.Account = Target
    /\ "PreviousTxnID" \in DOMAIN node.ModifiedNode

LacksNodes(msg) ==
    \/ "result" \notin DOMAIN msg
    \/ "meta" \notin DOMAIN msg.result
    \/ "AffectedNodes" \notin DOMAIN msg.result.meta

\* C19: a tx response with no error that lacks result.meta.AffectedNodes
\* makes the walk report the missing list, dump the response and stop, with
\* no further tx query and nothing raised.
C19_NoAffectedNodes ==
    \A i \in TxSteps :
        ("error" \notin DOMAIN steps[i].msg /\ LacksNodes(steps[i].msg))
            => StoppedWith(i, "Error",
                           <<NoAffectedText, GotText, Json(steps[i].msg)>>)

\* The second tx response of a walk has a result without meta.
C19_Witness ==
    /\ Done
    /\ Len(steps) = 3
    /\ steps[3].command = "tx"
    /\ "result" \in DOMAIN steps[3].msg
    /\ "meta" \notin DOMAIN steps[3].msg.result
    /\ terminal = "Error"

\* The identifiers of the messages getResponse has returned as answers.
AcceptedIds == {answered[i].got : i \in DOMAIN answered}

\* This step reads a message whose identifier was already accepted as an
\* answer: the second occurrence of a response.
ReadsDuplicate ==
    /\ RecvReturns
    /\ "id" \in DOMAIN Head(inbox)
    /\ Head(inbox).id \in AcceptedIds

\* C20 as stated: when the channel delivers a response with the same
\* identifier twice, the second occurrence is accepted as an answer too.
C20_DuplicateAccepted ==
    [][ReadsDuplicate => Len(answered') = Len(answered) + 1]_vars

\* C20 as amended: the second occurrence is never accepted: every query
\* waits for a fresh identifier, so the duplicate is reported as a mismatch
\* and discarded, and nothing is returned to the walker.
C20_DuplicateDiscarded ==
    [][ReadsDuplicate
          => /\ answered' = answered
             /\ steps' = steps
             /\ out' = Append(out, MismatchLine(Head(inbox).id, waitId))]_vars

\* The answer to the account_info query came a second time during the first
\* tx query, was reported, and the tx query then got its own answer.
C20_Witness ==
    /\ Len(answered) = 2
    /\ answered[2].got = 2
    /\ strays = 1
    /\ \E i \in DOMAIN out : out[i] = MismatchLine(1, 2)

\* What the loop of threadAccount prints from reference r on when every
\* query is answered from the snapshot, for at most n turns.
RECURSIVE ThreadOutput(_, _)
ThreadOutput(r, n) ==
    IF n = 0 \/ r \notin DOMAIN txLedger
    THEN <<>>
    ELSE LET e == GetPrevTxnId(txLedger[r], Target)
         IN  <<RuleLine, Json(txLedger[r])>> \o e.outs
             \o (IF Leaves(e, NextTxnId(r, e)) THEN <<>> ELSE ThreadOutput(e.ret, n - 1))

\* The standard output of a walk of the target account as the snapshot alone
\* decides it: no identifier and no counter value enters it.
WalkOutput ==
    LET e == StartWalk(acctLedger[Target], Target)
    IN  <<Json(acctLedger[Target])>> \o e.outs
        \o (IF Leaves(e, NextTxnId("", e)) THEN <<>> ELSE ThreadOutput(e.ret, MaxTx + 1))

\* threadAccount has run to its end on the answers of the snapshot: the
\* channel raised nothing.
WalkOver == Done /\ conn # "none" /\ exc \notin ChannelExcs

EndsInPort(s) ==
    \E i \in 1..(Len(s) - 1) :
        /\ s[i] = ":"
        /\ \A j \in (i + 1)..Len(s) : s[j] \in Digits
BadCommandLine ==
    \/ Len(argv) \notin {1, 2}
    \/ /\ Len(argv) >= 1
       /\ \/ argv[1] = <<>>
          \/ argv[1][1] # "r"
          \/ Len(argv[1]) < 25
          \/ Len(argv[1]) > 35
    \/ /\ Len(argv) >= 2
       /\ \/ Len(argv[2]) < 5
          \/ SubSeq(argv[2], 1, 5) # <<"w", "s", ":", "/", "/">>
          \/ ~EndsInPort(argv[2])

\* C16: on such a command line the program prints the usage text and exits
\* with a non-zero status before any connection attempt: once extractArgs
\* has run the program is over, no connection was opened and no query sent.
C16_UsageExit ==
    (pc # "args" /\ BadCommandLine)
        => /\ Done
           /\ terminal = "UsageError"
           /\ exc = "SystemExit: 1"
           /\ out # <<>> /\ out[Len(out)] = UsageText
           /\ conn = "none"
           /\ sent = <<>>

====
